---- MODULE Spec2Model ----
(***************************************************************************)
(* FakePrinter: a layer-by-layer "print" job driven by the rows of a CSV   *)
(* file.  Three drivers are modelled:                                      *)
(*   normal  - normal_driver.py: sequential supervised / sequential        *)
(*             automatic                                                   *)
(*   multi   - multi_driver.py : sequential supervised / full-concurrency  *)
(*             automatic (asyncio.gather)                                  *)
(*   smart   - smart_driver.py : prefetch-paced supervised /               *)
(*             full-concurrency automatic                                  *)
(* Rows are indexed from 0 as in the code (DataFrame.iloc).                *)
(***************************************************************************)
EXTENDS Integers, Sequences, FiniteSets, TLC

\* ------------------------------------------------------------------ bounds
\* All input tables of up to MaxRows rows are enumerated for every driver
\* and mode.
MaxRows == 2
\* Length of the long input tables used to saturate the prefetch window.
LongRows == 12

\* ------------------------------------------------------- program constants
max_prefetch == 10
initial_prefetch == 6

\* ---------------------------------------------------------------- alphabet
Drivers == {"normal", "multi", "smart"}
Modes == {"supervised", "automatic", "other"}
\* Cells of the "Error" column of the input file.
ErrorValues == {"SUCCESS", "Nozzle Jam"}
\* Cells of the "image url" column of the input file: "" is an empty cell.
ImageValues == {"", "url"}
\* What pd.read_csv makes of an empty cell: the float NaN.
NaN == "nan"
\* The layer number of a row without a "Layer Number": the code's default
\* "unknown", kept apart from the numbers 1, 2, ... of the column.
unknown == 0
\* What the environment does to the I/O of one row: everything works, the
\* layer folder cannot be created, the record cannot be written, the image
\* cannot be fetched (HTTP error, network error, timeout), the fetched image
\* cannot be written.
Fates == {"ok", "mkdir", "write", "fetch", "imgwrite"}
None == "None"
\* The exit status of the process: none while it runs, <<n>> once it has
\* ended with status n.
StillRunning == << >>
Exited(n) == <<n>>
\* The result of an operation: none before it settles and after a
\* cancellation, the returned tuple, or <<e>> when it raised e.
NoResult == << >>
Raised(e) == <<e>>
\* The summary: none before generate_summary, <<counters>> after.
NoSummary == << >>

VARIABLES
    driver,                 \* which of the three programs runs
    mode,                   \* self.mode
    file_ok,                \* whether pd.read_csv can read the input file
    file_rows,              \* the rows the input file holds
    fate,                   \* environment: I/O fate of each row
    csv_data,               \* self.csv_data
    total_layers,           \* self.total_layers
    successful_layers,      \* self.successful_layers
    failed_layers,          \* self.failed_layers
    error_log,              \* self.error_log
    pc,                     \* position of run()
    exit_code,              \* process exit status (StillRunning, Exited(n))
    current_index,          \* row the loop is at (current_index / iterrows)
    next_index_to_prefetch, \* supervised_mode_async
    prefetched,             \* supervised_mode_async: key -> task (its row)
    task,                   \* per row: the asynchronous operation
    files,                  \* artifact store: the files under output_folder
    attempted,              \* history: rows whose image fetch was attempted
    folded,                 \* history: outcomes folded into the counters
    launches,               \* history: per row, number of operations created
    quit,                   \* history: the user aborted the loop
    summaries,              \* history: number of generate_summary() calls
    summary                 \* the counters as written by generate_summary()

vars == <<driver, mode, file_ok, file_rows, fate, csv_data, total_layers,
          successful_layers, failed_layers, error_log, pc, exit_code,
          current_index, next_index_to_prefetch, prefetched, task, files,
          attempted, folded, launches, quit, summaries, summary>>

input_vars == <<driver, mode, file_ok, file_rows, fate>>
counters == <<successful_layers, failed_layers, error_log>>
window_vars == <<next_index_to_prefetch, prefetched>>

Rows(n) == 0 .. (n - 1)
NumRows == Cardinality(DOMAIN file_rows)

\* ------------------------------------------------------------- input tables
\* A row of the table: its "Layer Number", "image url" and "Error" cells.
\* A cell is <<value>>, or << >> when the table has no such column.
Row(l, img, err) == [layer |-> l, image |-> img, error |-> err]

\* layer.get(column, default) on a cell.
Get(c, default) == IF c = << >> THEN default ELSE c[1]

\* The fates a row can meet: only a row with a URL has a fetch whose
\* outcome depends on the environment.
FatesOf(img) == IF img = "url" THEN Fates ELSE {"ok", "mkdir", "write"}

\* Every table of n rows with the three columns, Layer Number i + 1 on
\* row i.
Tables(n) ==
    { [i \in Rows(n) |-> Row(<<i + 1>>, <<t[i][1]>>, <<t[i][2]>>)] :
        t \in [Rows(n) -> ImageValues \X ErrorValues] }

FateMaps(rows) ==
    { f \in [DOMAIN rows -> Fates] :
        \A i \in DOMAIN rows : f[i] \in FatesOf(Get(rows[i].image, "")) }

\* The "Layer Number" cell of row i: numbered, the same on every row, or
\* no such column.
LayerCell(lm, i) ==
    IF lm = "absent" THEN << >> ELSE IF lm = "equal" THEN <<1>> ELSE <<i + 1>>

\* Every table of n rows in which columns may be absent and the layer
\* numbers equal.
SparseTables(n) ==
    { [i \in Rows(n) |->
          Row(LayerCell(lm, i),
              IF ic THEN <<t[i][1]>> ELSE << >>,
              IF ec THEN <<t[i][2]>> ELSE << >>)] :
        lm \in {"distinct", "equal", "absent"}, ic \in BOOLEAN, ec \in BOOLEAN,
        t \in [Rows(n) -> ImageValues \X ErrorValues] }

\* The long tables repeat a fixed pattern of rows and fates.
LongPattern ==
    << <<"url", "SUCCESS", "ok">>,
       <<"",    "SUCCESS", "ok">>,
       <<"url", "Nozzle Jam", "ok">>,
       <<"",    "Nozzle Jam", "write">>,
       <<"url", "SUCCESS", "fetch">>,
       <<"url", "SUCCESS", "mkdir">>,
       <<"",    "Nozzle Jam", "ok">> >>

PatternAt(i) == LongPattern[(i % Len(LongPattern)) + 1]
LongTable(n) ==
    [i \in Rows(n) |-> Row(<<i + 1>>, <<PatternAt(i)[1]>>, <<PatternAt(i)[2]>>)]
LongFate(n) == [i \in Rows(n) |-> PatternAt(i)[3]]
\* Lengths of the long tables: around initial_prefetch, around max_prefetch,
\* and LongRows.
LongLengths == {initial_prefetch - 1, initial_prefetch + 1, max_prefetch + 1, LongRows}

\* ------------------------------------------------------------------- Init
\* FakePrinter.__init__ : the object before run().
InitObject ==
    /\ csv_data = << >>
    /\ total_layers = 0
    /\ successful_layers = 0
    /\ failed_layers = 0
    /\ error_log = << >>
    /\ pc = "start"
    /\ exit_code = StillRunning
    /\ current_index = 0
    /\ next_index_to_prefetch = 0
    /\ prefetched = << >>
    /\ files = {}
    /\ attempted = {}
    /\ folded = << >>
    /\ quit = FALSE
    /\ summaries = 0
    /\ summary = NoSummary

\* Every small table, under every driver and mode.
SmallInput ==
    /\ driver \in Drivers
    /\ mode \in Modes
    /\ file_ok = TRUE
    /\ \E n \in 0 .. MaxRows : file_rows \in Tables(n)
    /\ fate \in FateMaps(file_rows)

\* Tables with absent columns or equal layer numbers, in an environment
\* where all I/O works.
SparseInput ==
    /\ driver \in Drivers
    /\ mode \in {"supervised", "automatic"}
    /\ file_ok = TRUE
    /\ \E n \in 1 .. MaxRows : file_rows \in SparseTables(n)
    /\ fate = [i \in DOMAIN file_rows |-> "ok"]

\* The three-row table of the end-to-end scenario: a reachable image and
\* "SUCCESS", an empty image url and "SUCCESS", a reachable image and
\* "Nozzle Jam".
ScenarioTable ==
    [i \in Rows(3) |->
        Row(<<i + 1>>,
            IF i = 1 THEN <<"">> ELSE <<"url">>,
            IF i = 2 THEN <<"Nozzle Jam">> ELSE <<"SUCCESS">>)]

ScenarioInput ==
    /\ driver \in Drivers
    /\ mode \in {"supervised", "automatic"}
    /\ file_ok = TRUE
    /\ file_rows = ScenarioTable
    /\ fate = [i \in DOMAIN file_rows |-> "ok"]

\* An input file that cannot be read or parsed.
BadInput ==
    /\ driver \in Drivers
    /\ mode \in Modes
    /\ file_ok = FALSE
    /\ file_rows \in Tables(1)
    /\ fate = [i \in DOMAIN file_rows |-> "ok"]

\* Long tables, for the prefetch-paced supervised mode.
LongInput ==
    /\ driver = "smart"
    /\ mode = "supervised"
    /\ file_ok = TRUE
    /\ \E n \in LongLengths :
          /\ file_rows = LongTable(n)
          /\ fate = LongFate(n)

Init ==
    /\ InitObject
    /\ (SmallInput \/ SparseInput \/ ScenarioInput \/ BadInput \/ LongInput)
    /\ task = [i \in DOMAIN file_rows |-> [status |-> "none", result |-> NoResult]]
    /\ launches = [i \in DOMAIN file_rows |-> 0]


\* ------------------------------------------------------------ layer outcome
\* The message of an error_log entry is <<prefix, detail>>, its text being
\* the two concatenated; an entry is <<layer_number, message>>.
WriteException == "OSError"
FetchException == "FetchError"
\* What the HTTP client raises when it is handed NaN instead of a URL.
UrlException == "InvalidURL"

\* pd.read_csv: an empty cell becomes NaN, any other cell keeps its value.
ParseCell(c) == IF c = <<"">> THEN <<NaN>> ELSE c

\* pd.read_csv on the rows of the file.
ReadCsv(rows) ==
    [i \in DOMAIN rows |->
        Row(rows[i].layer, ParseCell(rows[i].image), ParseCell(rows[i].error))]

\* layer.get("Layer Number", "unknown"), layer.get("image url", "") and
\* layer.get("Error", "SUCCESS") on a row of csv_data.
LayerNumber(row) == Get(row.layer, unknown)
ImageUrl(row) == Get(row.image, "")
CsvError(row) == Get(row.error, "SUCCESS")

\* "if image_url:" : only the empty string is falsy; NaN is truthy.
Truthy(v) == v # ""

\* Outcome of the inherent-error check that ends the asynchronous processor.
InherentResult(row) ==
    IF CsvError(row) # "SUCCESS"
    THEN <<LayerNumber(row), FALSE, <<"Inherent CSV error: ", CsvError(row)>>>>
    ELSE <<LayerNumber(row), TRUE, None>>

\* Variant of DownloadError that reports the inherent error of the row, when
\* it has one, in place of the download error.
DownloadErrorUnlessInherent(row, e) ==
    IF CsvError(row) # "SUCCESS"
    THEN <<LayerNumber(row), FALSE, <<"Inherent CSV error: ", CsvError(row)>>>>
    ELSE <<LayerNumber(row), FALSE, <<"Error downloading image: ", e>>>>

\* The failure returned when the download of the processor raises e.
DownloadError(row, e) ==
    <<LayerNumber(row), FALSE, <<"Error downloading image: ", e>>>>

\* Variant of ProcessorStart without the early return on a record-write
\* failure: the processor goes on to the fetch.
ProcessorStartNoShortCircuit(row, f) ==
    IF f = "mkdir"
    THEN [status |-> "raised", result |-> Raised(WriteException),
          data |-> FALSE, fetch |-> FALSE]
    ELSE IF Truthy(ImageUrl(row))
    THEN IF ImageUrl(row) = NaN
         THEN [status |-> "done", result |-> DownloadError(row, UrlException),
               data |-> (f # "write"), fetch |-> TRUE]
         ELSE [status |-> "fetching", result |-> NoResult,
               data |-> (f # "write"), fetch |-> TRUE]
    ELSE [status |-> "done", result |-> InherentResult(row),
          data |-> (f # "write"), fetch |-> FALSE]

\* First step of the asynchronous processor, up to the await of the fetch:
\* create the folder, write the record, start the fetch when image_url is
\* truthy.  session.get raises at once on NaN, which the except clause
\* turns into a download error.  data: the record was persisted; fetch:
\* session.get was called.
ProcessorStart(row, f) ==
    IF f = "mkdir"
    THEN [status |-> "raised", result |-> Raised(WriteException),
          data |-> FALSE, fetch |-> FALSE]
    ELSE IF f = "write"
    THEN [status |-> "done",
          result |-> <<LayerNumber(row), FALSE,
                       <<"Error writing layer data: ", WriteException>>>>,
          data |-> FALSE, fetch |-> FALSE]
    ELSE IF Truthy(ImageUrl(row))
    THEN IF ImageUrl(row) = NaN
         THEN [status |-> "done", result |-> DownloadError(row, UrlException),
               data |-> TRUE, fetch |-> TRUE]
         ELSE [status |-> "fetching", result |-> NoResult,
               data |-> TRUE, fetch |-> TRUE]
    ELSE [status |-> "done", result |-> InherentResult(row),
          data |-> TRUE, fetch |-> FALSE]

\* Second step of the asynchronous processor: the fetch has settled.
\* png: the image was persisted.
ProcessorFinish(row, f) ==
    IF f = "fetch"
    THEN [status |-> "done", result |-> DownloadError(row, FetchException),
          png |-> FALSE]
    ELSE IF f = "imgwrite"
    THEN [status |-> "done", result |-> DownloadError(row, WriteException),
          png |-> FALSE]
    ELSE [status |-> "done", result |-> InherentResult(row), png |-> TRUE]

\* Whether the except clause around the download of print_layer catches the
\* failure to write the fetched image: normal_driver catches only
\* requests.RequestException, multi_driver catches Exception.
CatchesImageWrite(drv) == drv # "normal"

\* The synchronous processor print_layer, which folds its own outcome:
\* raised: an exception escapes; success/message: what is folded.
print_layer(drv, row, f) ==
    IF f = "mkdir"
    THEN [raised |-> TRUE, success |-> FALSE, message |-> None,
          data |-> FALSE, fetch |-> FALSE, png |-> FALSE]
    ELSE IF f = "write"
    THEN [raised |-> FALSE, success |-> FALSE,
          message |-> <<"Error writing data: ", WriteException>>,
          data |-> FALSE, fetch |-> FALSE, png |-> FALSE]
    ELSE IF Truthy(ImageUrl(row))
    THEN IF ImageUrl(row) = NaN
         THEN [raised |-> FALSE, success |-> FALSE,
               message |-> <<"", UrlException>>,
               data |-> TRUE, fetch |-> TRUE, png |-> FALSE]
         ELSE IF f = "fetch"
         THEN [raised |-> FALSE, success |-> FALSE,
               message |-> <<"", FetchException>>,
               data |-> TRUE, fetch |-> TRUE, png |-> FALSE]
         ELSE IF f = "imgwrite"
         THEN IF CatchesImageWrite(drv)
              THEN [raised |-> FALSE, success |-> FALSE,
                    message |-> <<"", WriteException>>,
                    data |-> TRUE, fetch |-> TRUE, png |-> FALSE]
              ELSE [raised |-> TRUE, success |-> FALSE, message |-> None,
                    data |-> TRUE, fetch |-> TRUE, png |-> FALSE]
         ELSE [raised |-> FALSE, success |-> TRUE, message |-> None,
               data |-> TRUE, fetch |-> TRUE, png |-> TRUE]
    ELSE [raised |-> FALSE, success |-> TRUE, message |-> None,
          data |-> TRUE, fetch |-> FALSE, png |-> FALSE]

\* The artifacts of a layer.
DataFile(l) == <<"layer", l, "layer_data.txt">>
ImageFile(l) == <<"layer", l, "png">>
SummaryFiles == {<<"print_summary.txt">>, <<"print_summary_chart.png">>}

\* Variant of Fold that counts a failure without logging it.
FoldUnlogged(c, res) ==
    IF res[2]
    THEN [s |-> c.s + 1, f |-> c.f, log |-> c.log]
    ELSE [s |-> c.s, f |-> c.f + 1, log |-> c.log]

\* Folding one result tuple (layer_number, success, error) into the
\* counters c = [s, f, log].
Fold(c, res) ==
    IF res[2]
    THEN [s |-> c.s + 1, f |-> c.f, log |-> c.log]
    ELSE [s |-> c.s, f |-> c.f + 1, log |-> Append(c.log, <<res[1], res[3]>>)]

Counters == [s |-> successful_layers, f |-> failed_layers, log |-> error_log]

SetCounters(c) ==
    /\ successful_layers' = c.s
    /\ failed_layers' = c.f
    /\ error_log' = c.log

\* History entry of one folded outcome.
FoldEntry(key, r, res) ==
    [key |-> key, row |-> r, layer |-> res[1], success |-> res[2]]

\* ------------------------------------------------------------------- run()
\* Variant of LoadCsvData without the sys.exit(1) of the except clause: an
\* unreadable file leaves csv_data empty and run() goes on.
LoadCsvDataNoExit ==
    /\ pc = "start"
    /\ csv_data' = IF file_ok THEN ReadCsv(file_rows) ELSE << >>
    /\ total_layers' = IF file_ok THEN NumRows ELSE 0
    /\ pc' = "loaded"
    /\ UNCHANGED <<input_vars, counters, exit_code, current_index,
                   window_vars, task, files, attempted, folded, launches,
                   quit, summaries, summary>>

\* load_csv_data: read the file or sys.exit(1).
LoadCsvData ==
    /\ pc = "start"
    /\ IF file_ok
       THEN /\ csv_data' = ReadCsv(file_rows)
            /\ total_layers' = NumRows
            /\ pc' = "loaded"
            /\ exit_code' = exit_code
       ELSE /\ pc' = "exit"
            /\ exit_code' = Exited(1)
            /\ UNCHANGED <<csv_data, total_layers>>
    /\ UNCHANGED <<input_vars, counters, current_index, window_vars, task,
                   files, attempted, folded, launches, quit, summaries, summary>>

\* run(): the mode is neither "supervised" nor "automatic": sys.exit(1).
InvalidMode ==
    /\ pc = "loaded"
    /\ mode \notin {"supervised", "automatic"}
    /\ pc' = "exit"
    /\ exit_code' = Exited(1)
    /\ UNCHANGED <<input_vars, csv_data, total_layers, counters,
                   current_index, window_vars, task, files, attempted,
                   folded, launches, quit, summaries, summary>>

\* Variant of AfterLoop that skips the summary when the user had aborted
\* the loop before it was left.
AfterLoopUnlessAborted == IF quit THEN "done" ELSE "summary"

\* Where run() goes when the row loop of a mode is over.
AfterLoop == "summary"

\* generate_summary: both of its writes are guarded by try/except.
GenerateSummary ==
    /\ pc = "summary"
    /\ summaries' = summaries + 1
    /\ summary' = <<[total |-> total_layers, successful |-> successful_layers,
                     failed |-> failed_layers, errors |-> error_log]>>
    /\ files' = files \cup SummaryFiles
    /\ pc' = "done"
    /\ exit_code' = Exited(0)
    /\ UNCHANGED <<input_vars, csv_data, total_layers, counters,
                   current_index, window_vars, task, attempted, folded,
                   launches, quit>>


\* ------------------------------------------------- sequential modes (sync)
\* Position of a sequential loop after the row at index i: the next prompt
\* (or automatic step) while rows remain, else the end of the loop.
LoopNext(i, total, again) == IF i < total THEN again ELSE AfterLoop

\* run() enters supervised_mode (normal_driver, multi_driver).
RunSupervised ==
    /\ pc = "loaded"
    /\ mode = "supervised"
    /\ driver \in {"normal", "multi"}
    /\ pc' = LoopNext(0, total_layers, "prompt")
    /\ UNCHANGED <<input_vars, csv_data, total_layers, counters, exit_code,
                   current_index, window_vars, task, files, attempted,
                   folded, launches, quit, summaries, summary>>

\* supervised_mode: the user types 'q' at the confirmation prompt.
PromptQuit ==
    /\ pc = "prompt"
    /\ quit' = TRUE
    /\ pc' = AfterLoop
    /\ UNCHANGED <<input_vars, csv_data, total_layers, counters, exit_code,
                   current_index, window_vars, task, files, attempted,
                   folded, launches, summaries, summary>>

\* supervised_mode: the user presses Enter; a row with an inherent error
\* leads to the ignore/end prompt, any other row is printed.
PromptEnter ==
    /\ pc = "prompt"
    /\ pc' = IF CsvError(csv_data[current_index]) # "SUCCESS"
             THEN "choice" ELSE "print"
    /\ UNCHANGED <<input_vars, csv_data, total_layers, counters, exit_code,
                   current_index, window_vars, task, files, attempted,
                   folded, launches, quit, summaries, summary>>

\* Variant of ChoiceEnd that counts the row as failed with its inherent
\* error before it leaves the loop.
ChoiceEndLogging ==
    /\ pc = "choice"
    /\ quit' = TRUE
    /\ pc' = AfterLoop
    /\ LET row == csv_data[current_index]
       IN SetCounters(Fold(Counters, <<LayerNumber(row), FALSE,
                                       <<"", CsvError(row)>>>>))
    /\ UNCHANGED <<input_vars, csv_data, total_layers, exit_code,
                   current_index, window_vars, task, files, attempted,
                   folded, launches, summaries, summary>>

\* supervised_mode: the user answers 'e' at the inherent-error prompt.
ChoiceEnd ==
    /\ pc = "choice"
    /\ quit' = TRUE
    /\ pc' = AfterLoop
    /\ UNCHANGED <<input_vars, csv_data, total_layers, counters, exit_code,
                   current_index, window_vars, task, files, attempted,
                   folded, launches, summaries, summary>>

\* supervised_mode: any other answer ignores the error and continues.
ChoiceIgnore ==
    /\ pc = "choice"
    /\ pc' = "print"
    /\ UNCHANGED <<input_vars, csv_data, total_layers, counters, exit_code,
                   current_index, window_vars, task, files, attempted,
                   folded, launches, quit, summaries, summary>>

\* The effect of one call of print_layer on row i, and the move to the next
\* iteration of the loop (again: the pc of the loop head).
CallPrintLayer(i, again) ==
    LET row == csv_data[i]
        o == print_layer(driver, row, fate[i])
    IN  /\ files' = files \cup (IF o.data THEN {DataFile(LayerNumber(row))} ELSE {})
                          \cup (IF o.png THEN {ImageFile(LayerNumber(row))} ELSE {})
        /\ attempted' = attempted \cup (IF o.fetch THEN {i} ELSE {})
        /\ IF o.raised
           THEN /\ pc' = "crash"
                /\ exit_code' = Exited(1)
                /\ UNCHANGED <<counters, folded, current_index>>
           ELSE /\ SetCounters(IF o.success
                               THEN Fold(Counters, <<LayerNumber(row), TRUE, None>>)
                               ELSE Fold(Counters, <<LayerNumber(row), FALSE, o.message>>))
                /\ folded' = Append(folded, FoldEntry(i, i, <<LayerNumber(row), o.success>>))
                /\ current_index' = i + 1
                /\ pc' = LoopNext(i + 1, total_layers, again)
                /\ exit_code' = exit_code

\* supervised_mode: self.print_layer(layer).
PrintLayer ==
    /\ pc = "print"
    /\ CallPrintLayer(current_index, "prompt")
    /\ UNCHANGED <<input_vars, csv_data, total_layers, window_vars, task,
                   launches, quit, summaries, summary>>

\* run() enters automatic_mode (normal_driver).
RunAutomatic ==
    /\ pc = "loaded"
    /\ mode = "automatic"
    /\ driver = "normal"
    /\ pc' = LoopNext(0, total_layers, "auto")
    /\ UNCHANGED <<input_vars, csv_data, total_layers, counters, exit_code,
                   current_index, window_vars, task, files, attempted,
                   folded, launches, quit, summaries, summary>>

\* Variant of AutomaticStep without the else: a row with an inherent error
\* is logged, counted as failed and then printed as well.
AutomaticStepFallThrough ==
    /\ pc = "auto"
    /\ LET i == current_index
           row == csv_data[i]
           o == print_layer(driver, row, fate[i])
           c == IF CsvError(row) # "SUCCESS"
                THEN Fold(Counters, <<LayerNumber(row), FALSE, <<"", CsvError(row)>>>>)
                ELSE Counters
       IN /\ files' = files \cup (IF o.data THEN {DataFile(LayerNumber(row))} ELSE {})
                            \cup (IF o.png THEN {ImageFile(LayerNumber(row))} ELSE {})
          /\ attempted' = attempted \cup (IF o.fetch THEN {i} ELSE {})
          /\ IF o.raised
             THEN /\ pc' = "crash"
                  /\ exit_code' = Exited(1)
                  /\ SetCounters(c)
                  /\ UNCHANGED <<folded, current_index>>
             ELSE /\ SetCounters(Fold(c, <<LayerNumber(row), o.success, o.message>>))
                  /\ folded' = Append(folded, FoldEntry(i, i, <<LayerNumber(row), o.success>>))
                  /\ current_index' = i + 1
                  /\ pc' = LoopNext(i + 1, total_layers, "auto")
                  /\ exit_code' = exit_code
    /\ UNCHANGED <<input_vars, csv_data, total_layers, window_vars, task,
                   launches, quit, summaries, summary>>

\* automatic_mode: one iteration: a row with an inherent error is logged
\* and counted as failed without being printed, any other row is printed.
AutomaticStep ==
    /\ pc = "auto"
    /\ LET i == current_index
           row == csv_data[i]
       IN IF CsvError(row) # "SUCCESS"
          THEN /\ SetCounters(Fold(Counters, <<LayerNumber(row), FALSE, <<"", CsvError(row)>>>>))
               /\ folded' = Append(folded, FoldEntry(i, i, <<LayerNumber(row), FALSE>>))
               /\ current_index' = i + 1
               /\ pc' = LoopNext(i + 1, total_layers, "auto")
               /\ UNCHANGED <<files, attempted, exit_code>>
          ELSE CallPrintLayer(i, "auto")
    /\ UNCHANGED <<input_vars, csv_data, total_layers, window_vars, task,
                   launches, quit, summaries, summary>>


\* ------------------------------------------------ asynchronous operations
\* The event loop runs the launched operations whenever the coordinating
\* coroutine is suspended: at the prompt, at the await of a task, while the
\* session closes, and inside asyncio.gather.
LoopRunning == pc \in {"sprompt", "await", "closing", "gather"}

NewTask == [status |-> "created", result |-> NoResult]

\* First step of the operation of row i (fetch_layer_supervised /
\* print_layer_async up to the await of session.get).  The event loop runs
\* the first step of the tasks in the order of their creation, which is the
\* order of the rows.
TaskStart(i) ==
    /\ LoopRunning
    /\ task[i].status = "created"
    /\ \A j \in DOMAIN task : j < i => task[j].status # "created"
    /\ LET row == csv_data[i]
           o == ProcessorStart(row, fate[i])
       IN /\ task' = [task EXCEPT ![i] = [status |-> o.status, result |-> o.result]]
          /\ files' = files \cup (IF o.data THEN {DataFile(LayerNumber(row))} ELSE {})
          /\ attempted' = attempted \cup (IF o.fetch THEN {i} ELSE {})
    /\ UNCHANGED <<input_vars, csv_data, total_layers, counters, pc, exit_code,
                   current_index, window_vars, folded, launches, quit,
                   summaries, summary>>

\* Second step of the operation of row i: its fetch settles (response,
\* error or timeout) and the operation returns.
TaskFinish(i) ==
    /\ LoopRunning
    /\ task[i].status = "fetching"
    /\ LET row == csv_data[i]
           o == ProcessorFinish(row, fate[i])
       IN /\ task' = [task EXCEPT ![i] = [status |-> o.status, result |-> o.result]]
          /\ files' = files \cup (IF o.png THEN {ImageFile(LayerNumber(row))} ELSE {})
    /\ UNCHANGED <<input_vars, csv_data, total_layers, counters, pc, exit_code,
                   current_index, window_vars, attempted, folded, launches,
                   quit, summaries, summary>>

\* Variant of CancelPending that leaves the unsettled operations alone.
CancelNothing(tk) == tk

\* asyncio.run cancels the operations that have not settled.
CancelPending(tk) ==
    [i \in DOMAIN tk |->
        IF tk[i].status \in {"created", "fetching"}
        THEN [status |-> "cancelled", result |-> NoResult]
        ELSE tk[i]]

\* --------------------------------------- full-concurrency automatic mode
\* run() enters automatic_mode_async (multi_driver, smart_driver): one
\* operation per row is handed to asyncio.gather.
RunAutomaticAsync ==
    /\ pc = "loaded"
    /\ mode = "automatic"
    /\ driver \in {"multi", "smart"}
    /\ task' = [i \in DOMAIN task |-> NewTask]
    /\ launches' = [i \in DOMAIN launches |-> launches[i] + 1]
    /\ pc' = "gather"
    /\ UNCHANGED <<input_vars, csv_data, total_layers, counters, exit_code,
                   current_index, window_vars, files, attempted, folded,
                   quit, summaries, summary>>

\* Variant of FoldResults that goes through the results from the last row
\* to the first.
RECURSIVE FoldResultsDescending(_, _, _, _)
FoldResultsDescending(c, tk, i, total) ==
    IF i < total
    THEN FoldResultsDescending(Fold(c, tk[total - 1].result), tk, i, total - 1)
    ELSE c

\* The for loop over the gathered results, rows i .. total - 1 in order.
RECURSIVE FoldResults(_, _, _, _)
FoldResults(c, tk, i, total) ==
    IF i < total
    THEN FoldResults(Fold(c, tk[i].result), tk, i + 1, total)
    ELSE c

RECURSIVE FoldEntries(_, _, _, _)
FoldEntries(h, tk, i, total) ==
    IF i < total
    THEN FoldEntries(Append(h, FoldEntry(i, i, tk[i].result)), tk, i + 1, total)
    ELSE h

\* automatic_mode_async: every operation has returned; gather returns the
\* results in row order and they are folded.
GatherReturn ==
    /\ pc = "gather"
    /\ \A i \in DOMAIN task : task[i].status = "done"
    /\ SetCounters(FoldResults(Counters, task, 0, total_layers))
    /\ folded' = FoldEntries(folded, task, 0, total_layers)
    /\ pc' = AfterLoop
    /\ UNCHANGED <<input_vars, csv_data, total_layers, exit_code,
                   current_index, window_vars, task, files, attempted,
                   launches, quit, summaries, summary>>

\* automatic_mode_async: an operation raised; gather(return_exceptions=False)
\* propagates the exception out of run().
GatherRaise ==
    /\ pc = "gather"
    /\ \E i \in DOMAIN task : task[i].status = "raised"
    /\ task' = CancelPending(task)
    /\ pc' = "crash"
    /\ exit_code' = Exited(1)
    /\ UNCHANGED <<input_vars, csv_data, total_layers, counters,
                   current_index, window_vars, files, attempted, folded,
                   launches, quit, summaries, summary>>

\* --------------------------------------- prefetch-paced supervised mode
\* Variant of KeepPrefetching with an inclusive comparison of the window
\* size.
KeepPrefetchingInclusive(nxt, total, pf, cap) ==
    nxt < total /\ Cardinality(DOMAIN pf) <= cap

\* Condition of the two prefetch loops (cap: initial_prefetch before the
\* first prompt, max_prefetch after each consumed row).
KeepPrefetching(nxt, total, pf, cap) ==
    nxt < total /\ Cardinality(DOMAIN pf) < cap

\* Variant of PrefetchKey that stores the operation in a slot of a ring of
\* max_prefetch slots.
PrefetchSlot(nxt) == nxt % max_prefetch

\* The key under which the operation launched for row nxt is stored.
PrefetchKey(nxt) == nxt

\* Variant of PrefetchLoop that launches at most one row (an if for the
\* while).
PrefetchOne(pf, nxt, total, cap) ==
    IF KeepPrefetching(nxt, total, pf, cap)
    THEN [prefetched |-> (PrefetchKey(nxt) :> nxt) @@ pf, next |-> nxt + 1]
    ELSE [prefetched |-> pf, next |-> nxt]

\* A prefetch loop: launch row nxt under its key and advance.
RECURSIVE PrefetchLoop(_, _, _, _)
PrefetchLoop(pf, nxt, total, cap) ==
    IF KeepPrefetching(nxt, total, pf, cap)
    THEN PrefetchLoop((PrefetchKey(nxt) :> nxt) @@ pf, nxt + 1, total, cap)
    ELSE [prefetched |-> pf, next |-> nxt]

\* Variant of Launch that stores the key of the last row of a prefetch loop
\* without creating its operation.
LaunchButLast(tk, w) ==
    [i \in DOMAIN tk |->
        IF next_index_to_prefetch <= i /\ i < w.next - 1 THEN NewTask ELSE tk[i]]

\* The state after a prefetch loop that moved next_index_to_prefetch to
\* w.next: the rows in between have a new operation.
Launch(tk, w) ==
    [i \in DOMAIN tk |->
        IF next_index_to_prefetch <= i /\ i < w.next THEN NewTask ELSE tk[i]]

Launched(ln, w) ==
    [i \in DOMAIN ln |->
        IF next_index_to_prefetch <= i /\ i < w.next THEN ln[i] + 1 ELSE ln[i]]

\* Variant of ConsumerNext that enters the loop body once more at the end
\* of the table.
ConsumerNextInclusive(i, total) == IF i <= total THEN "sprompt" ELSE "closing"

\* Position of the consumer loop: while current_index < total_layers.
ConsumerNext(i, total) == IF i < total THEN "sprompt" ELSE "closing"

\* Variant of RunSupervisedAsync whose initial fill goes up to the full
\* window size.
RunSupervisedAsyncWide ==
    /\ pc = "loaded"
    /\ mode = "supervised"
    /\ driver = "smart"
    /\ LET w == PrefetchLoop(prefetched, next_index_to_prefetch, total_layers,
                             max_prefetch)
       IN /\ prefetched' = w.prefetched
          /\ next_index_to_prefetch' = w.next
          /\ task' = Launch(task, w)
          /\ launches' = Launched(launches, w)
    /\ pc' = ConsumerNext(current_index, total_layers)
    /\ UNCHANGED <<input_vars, csv_data, total_layers, counters, exit_code,
                   current_index, files, attempted, folded, quit, summaries,
                   summary>>

\* run() enters supervised_mode_async (smart_driver): the initial fill.
RunSupervisedAsync ==
    /\ pc = "loaded"
    /\ mode = "supervised"
    /\ driver = "smart"
    /\ LET w == PrefetchLoop(prefetched, next_index_to_prefetch, total_layers,
                             initial_prefetch)
       IN /\ prefetched' = w.prefetched
          /\ next_index_to_prefetch' = w.next
          /\ task' = Launch(task, w)
          /\ launches' = Launched(launches, w)
    /\ pc' = ConsumerNext(current_index, total_layers)
    /\ UNCHANGED <<input_vars, csv_data, total_layers, counters, exit_code,
                   current_index, files, attempted, folded, quit, summaries,
                   summary>>

\* Variant of ConsumerQuit that refills the window before leaving the loop.
ConsumerQuitRefilling ==
    /\ pc = "sprompt"
    /\ quit' = TRUE
    /\ pc' = "closing"
    /\ LET w == PrefetchLoop(prefetched, next_index_to_prefetch, total_layers,
                             max_prefetch)
       IN /\ prefetched' = w.prefetched
          /\ next_index_to_prefetch' = w.next
          /\ task' = Launch(task, w)
          /\ launches' = Launched(launches, w)
    /\ UNCHANGED <<input_vars, csv_data, total_layers, counters, exit_code,
                   current_index, files, attempted, folded, summaries,
                   summary>>

\* The user types 'q' at the rendezvous: break.
ConsumerQuit ==
    /\ pc = "sprompt"
    /\ quit' = TRUE
    /\ pc' = "closing"
    /\ UNCHANGED <<input_vars, csv_data, total_layers, counters, exit_code,
                   current_index, window_vars, task, files, attempted,
                   folded, launches, summaries, summary>>

\* The user confirms: the consumer awaits the operation stored under
\* current_index; with no such key it skips the row and refills.
ConsumerConfirm ==
    /\ pc = "sprompt"
    /\ IF current_index \in DOMAIN prefetched
       THEN /\ pc' = "await"
            /\ UNCHANGED <<current_index, window_vars, task, launches>>
       ELSE LET w == PrefetchLoop(prefetched, next_index_to_prefetch,
                                  total_layers, max_prefetch)
            IN /\ current_index' = current_index + 1
               /\ prefetched' = w.prefetched
               /\ next_index_to_prefetch' = w.next
               /\ task' = Launch(task, w)
               /\ launches' = Launched(launches, w)
               /\ pc' = ConsumerNext(current_index + 1, total_layers)
    /\ UNCHANGED <<input_vars, csv_data, total_layers, counters, exit_code,
                   files, attempted, folded, quit, summaries, summary>>

\* Variant of AwaitedTask that takes the operation that settled, whichever
\* row it is for (the latest launched when several have), and falls back to
\* the one stored under current_index when none has.
AwaitedAnySettled(pf, cur, tk) ==
    LET ready == {k \in DOMAIN pf : tk[pf[k]].status \in {"done", "raised"}}
    IN IF ready = {}
       THEN pf[cur]
       ELSE pf[CHOOSE k \in ready : \A k2 \in ready : k2 <= k]

\* The operation the consumer awaits at current_index.
AwaitedTask(pf, cur, tk) == pf[cur]

\* Variant of AwaitResult whose except clause does not look up the layer
\* number of the row.
AwaitResultUntagged(t, cur) ==
    IF t.status = "raised"
    THEN <<unknown, FALSE, <<"Error: ", t.result[1]>>>>
    ELSE t.result

\* What the await yields: the result of the operation, or, when it raised,
\* the failure built by the except clause of the consumer.
AwaitResult(t, cur) ==
    IF t.status = "raised"
    THEN <<LayerNumber(csv_data[cur]), FALSE, <<"Error: ", t.result[1]>>>>
    ELSE t.result

\* Variant of Retire that leaves the consumed key in the mapping.
RetireNothing(pf, cur) == pf

\* del prefetched[current_index]: the mapping without the consumed key.
Retire(pf, cur) == [k \in DOMAIN pf \ {cur} |-> pf[k]]

\* Variant of ConsumerFold without the refill loop: the window is never
\* topped up after the initial fill.
ConsumerFoldNoRefill ==
    /\ pc = "await"
    /\ LET r == AwaitedTask(prefetched, current_index, task)
           res == AwaitResult(task[r], current_index)
       IN /\ task[r].status \in {"done", "raised"}
          /\ SetCounters(Fold(Counters, res))
          /\ folded' = Append(folded, FoldEntry(current_index, r, res))
          /\ prefetched' = Retire(prefetched, current_index)
    /\ current_index' = current_index + 1
    /\ pc' = ConsumerNext(current_index + 1, total_layers)
    /\ UNCHANGED <<input_vars, csv_data, total_layers, exit_code, files,
                   attempted, quit, summaries, summary, task, launches,
                   next_index_to_prefetch>>

\* The awaited operation has settled: fold its outcome, retire its key,
\* advance and refill the window.
ConsumerFold ==
    /\ pc = "await"
    /\ LET r == AwaitedTask(prefetched, current_index, task)
           res == AwaitResult(task[r], current_index)
           kept == Retire(prefetched, current_index)
           w == PrefetchLoop(kept, next_index_to_prefetch, total_layers,
                             max_prefetch)
       IN /\ task[r].status \in {"done", "raised"}
          /\ SetCounters(Fold(Counters, res))
          /\ folded' = Append(folded, FoldEntry(current_index, r, res))
          /\ prefetched' = w.prefetched
          /\ next_index_to_prefetch' = w.next
          /\ task' = Launch(task, w)
          /\ launches' = Launched(launches, w)
    /\ current_index' = current_index + 1
    /\ pc' = ConsumerNext(current_index + 1, total_layers)
    /\ UNCHANGED <<input_vars, csv_data, total_layers, exit_code, files,
                   attempted, quit, summaries, summary>>

\* Variant of Shutdown that collects the outcome of the operation stored
\* under current_index, when it has returned, before leaving.
ShutdownDraining ==
    /\ pc = "closing"
    /\ task' = CancelPending(task)
    /\ pc' = AfterLoop
    /\ IF current_index \in DOMAIN prefetched
          /\ task[prefetched[current_index]].status = "done"
       THEN SetCounters(Fold(Counters, task[prefetched[current_index]].result))
       ELSE UNCHANGED counters
    /\ UNCHANGED <<input_vars, csv_data, total_layers, exit_code,
                   current_index, window_vars, files, attempted, folded,
                   launches, quit, summaries, summary>>

\* The consumer loop is over: the session closes and asyncio.run cancels
\* the operations still pending before run() goes on.
Shutdown ==
    /\ pc = "closing"
    /\ task' = CancelPending(task)
    /\ pc' = AfterLoop
    /\ UNCHANGED <<input_vars, csv_data, total_layers, counters, exit_code,
                   current_index, window_vars, files, attempted, folded,
                   launches, quit, summaries, summary>>

\* ------------------------------------------------------------ specification
Next ==
    \/ LoadCsvData
    \/ InvalidMode
    \/ RunSupervised
    \/ PromptQuit
    \/ PromptEnter
    \/ ChoiceEnd
    \/ ChoiceIgnore
    \/ PrintLayer
    \/ RunAutomatic
    \/ AutomaticStep
    \/ RunAutomaticAsync
    \/ GatherReturn
    \/ GatherRaise
    \/ RunSupervisedAsync
    \/ ConsumerQuit
    \/ ConsumerConfirm
    \/ ConsumerFold
    \/ Shutdown
    \/ GenerateSummary
    \/ \E i \in DOMAIN task : TaskStart(i)
    \/ \E i \in DOMAIN task : TaskFinish(i)

Spec == Init /\ [][Next]_vars

\* The scheduling the runtime guarantees once a row loop is over: run()
\* proceeds through the shutdown of the event loop and through
\* generate_summary.  The user's answers and the network are not forced.
FairSpec ==
    /\ Spec
    /\ WF_vars(Shutdown)
    /\ WF_vars(GenerateSummary)

\* A step of the event loop on one of the launched operations.
OperationStep == \E i \in DOMAIN task : TaskStart(i) \/ TaskFinish(i)

\* The answer of the user at the rendezvous of supervised_mode_async.
UserAnswer == ConsumerConfirm \/ ConsumerQuit

\* The steps run() takes by itself in prefetch-paced supervised mode: at
\* most one of them is enabled at a time.
RunStep ==
    \/ LoadCsvData
    \/ RunSupervisedAsync
    \/ ConsumerFold
    \/ Shutdown
    \/ GenerateSummary

\* The prefetch-paced run under the assumptions that the event loop keeps
\* running the launched operations, each of which takes two steps to settle
\* (aiohttp's total timeout of 10 s bounds the fetch), and that the user
\* answers every prompt; run() itself proceeds from step to step.
LiveSpec ==
    /\ Spec
    /\ WF_vars(RunStep)
    /\ WF_vars(UserAnswer)
    /\ WF_vars(OperationStep)

\* ------------------------------------------------------- shared vocabulary
PrefetchMode == driver = "smart" /\ mode = "supervised"
SequentialMode == driver = "normal" \/ (driver = "multi" /\ mode = "supervised")
Settled(t) == t.status \in {"done", "raised"}
Pending(t) == t.status \in {"created", "fetching"}
FoldCount(i) == Cardinality({n \in 1 .. Len(folded) : folded[n].row = i})
EntriesOf(l) == {n \in 1 .. Len(error_log) : error_log[n][1] = l}
LoopEnded == pc \in {"closing", "summary"}

\* ------------------------------------------------------------------ claims

\* C1: in prefetch-paced supervised mode the n-th outcome folded into the
\* counters is the outcome of the operation of row n-1, retrieved at
\* current_index = n-1, whatever the order in which the operations settle.
C1_OrderedDelivery ==
    PrefetchMode =>
        \A n \in 1 .. Len(folded) :
            /\ folded[n].key = n - 1
            /\ folded[n].row = n - 1
            /\ folded[n].layer = LayerNumber(csv_data[n - 1])
            /\ folded[n].success = AwaitResult(task[n - 1], n - 1)[2]

\* C1 witness: an outcome has been delivered while a later row's operation
\* settled before the operation of the row the consumer is waiting for.
C1_Witness ==
    /\ PrefetchMode
    /\ pc = "await"
    /\ Len(folded) >= 1
    /\ Pending(task[current_index])
    /\ \E j \in DOMAIN task : j > current_index /\ task[j].status = "done"

\* C2: in prefetch-paced supervised mode the in-flight mapping, and the set
\* of operations that are running, never hold more than max_prefetch
\* entries, also after the user quits.
C2_WindowBound ==
    PrefetchMode =>
        /\ Cardinality(DOMAIN prefetched) <= max_prefetch
        /\ Cardinality({i \in DOMAIN task : Pending(task[i])}) <= max_prefetch

\* C2 witness: the window is full after the user has quit.
C2_Witness ==
    /\ PrefetchMode
    /\ quit
    /\ Cardinality(DOMAIN prefetched) = max_prefetch
    /\ total_layers > max_prefetch

\* C3: in prefetch-paced supervised mode every row is launched at most once
\* and folded at most once; a run that ends without the user quitting has
\* launched and folded every row exactly once.
C3_ExactlyOnce ==
    PrefetchMode =>
        \A i \in DOMAIN task :
            /\ launches[i] <= 1
            /\ FoldCount(i) <= 1
            /\ (pc = "done" /\ ~quit) => (launches[i] = 1 /\ FoldCount(i) = 1)

\* C3 witness: an uncancelled run over more rows than the window holds has
\* reached the end.
C3_Witness ==
    /\ PrefetchMode
    /\ pc = "done"
    /\ ~quit
    /\ total_layers > max_prefetch
    /\ Len(folded) = total_layers

\* C4: in prefetch-paced supervised mode, once the user has quit after k
\* consumed rows, successful_layers + failed_layers = k, and the counters
\* and error_log never change again.
C4_CancellationFreezes ==
    /\ [](PrefetchMode /\ quit =>
            /\ successful_layers + failed_layers = current_index
            /\ Len(folded) = current_index
            /\ current_index < total_layers)
    /\ [][PrefetchMode /\ quit => counters' = counters]_vars

\* C4 witness: the user quit after some rows; of the operations in flight
\* some settled and some were cancelled, and the run reached its end.
C4_Witness ==
    /\ PrefetchMode
    /\ quit
    /\ pc = "done"
    /\ current_index >= 1
    /\ \E i \in DOMAIN task : i >= current_index /\ task[i].status = "done"
    /\ \E i \in DOMAIN task : i >= current_index /\ task[i].status = "cancelled"

\* C5: in every mode successful_layers + failed_layers <= total_layers, and
\* the summary of a run the user did not abort has
\* successful + failed = total.
C5_CountersBound ==
    /\ successful_layers + failed_layers <= total_layers
    /\ (pc = "done" /\ ~quit) =>
            summary[1].successful + summary[1].failed = summary[1].total

\* C5 witness: a summary of an unaborted run with successes and failures.
C5_Witness ==
    /\ pc = "done"
    /\ ~quit
    /\ successful_layers >= 1
    /\ failed_layers >= 1
    /\ summary[1].successful + summary[1].failed = total_layers

\* A per-row error of row i: its record or its image cannot be persisted,
\* its fetch fails, or its Error value is not "SUCCESS".
PerRowIOError(i) == fate[i] \in {"write", "fetch", "imgwrite"}
PerRowError(i) == PerRowIOError(i) \/ CsvError(csv_data[i]) # "SUCCESS"

\* The rows of the table have different layer numbers, so that an error_log
\* entry names one row.
DistinctLayers ==
    \A i \in DOMAIN csv_data, j \in DOMAIN csv_data :
        i # j => LayerNumber(csv_data[i]) # LayerNumber(csv_data[j])

\* C6: a per-row error on row i makes the run count row i as failed with
\* exactly one error_log entry naming its layer, never crashes the run, and
\* an unaborted run still processes every row.
C6_PerRowRecovery ==
    /\ (pc = "crash" /\ SequentialMode) => ~PerRowIOError(current_index)
    /\ \A n \in 1 .. Len(folded) :
          PerRowError(folded[n].row) =>
             /\ ~folded[n].success
             /\ DistinctLayers =>
                   Cardinality(EntriesOf(LayerNumber(csv_data[folded[n].row]))) = 1
    /\ (pc = "done" /\ ~quit) => \A i \in DOMAIN file_rows : FoldCount(i) = 1

\* The record write of row i succeeds, and so does its fetch when it has
\* one: the environment lets all I/O through and the image url is not NaN.
IOSucceeds(i) == fate[i] = "ok" /\ ImageUrl(csv_data[i]) # NaN

\* C7: a processed row whose record write and image fetch succeed but whose
\* Error value is not "SUCCESS" is counted as failed, with an error_log
\* entry carrying the Error value.
C7_InherentDominates ==
    \A n \in 1 .. Len(folded) :
        LET i == folded[n].row IN
        (IOSucceeds(i) /\ CsvError(csv_data[i]) # "SUCCESS") =>
            /\ ~folded[n].success
            /\ \E e \in EntriesOf(LayerNumber(csv_data[i])) :
                   error_log[e][2][2] = CsvError(csv_data[i])

\* C8: once the row loop has ended, by exhaustion or by a user abort,
\* generate_summary is eventually called, it is called once, and it writes
\* the counters as they stood when the loop ended.
C8_SummaryOnce ==
    /\ LoopEnded ~> (pc = "done")
    /\ [](quit => (LoopEnded \/ pc = "done"))
    /\ [](summaries <= 1)
    /\ [](pc = "done" =>
            /\ summaries = 1
            /\ summary = <<[total |-> total_layers,
                            successful |-> successful_layers,
                            failed |-> failed_layers, errors |-> error_log]>>)
    /\ [][LoopEnded => counters' = counters]_vars

\* C8 witness: the summary has been generated after a user abort that left
\* failures counted.
C8_Witness ==
    /\ pc = "done"
    /\ quit
    /\ summaries = 1
    /\ failed_layers >= 1

\* C9: with an invalid mode or an unreadable input file run() can only end
\* in sys.exit(1), with no row processed, no counter changed, no summary
\* and no artifact.
C9_FatalExit ==
    /\ pc = "exit" => exit_code = Exited(1)
    /\ (~file_ok \/ mode \notin {"supervised", "automatic"}) =>
          /\ pc \in {"start", "loaded", "exit"}
          /\ successful_layers = 0
          /\ failed_layers = 0
          /\ error_log = << >>
          /\ folded = << >>
          /\ files = {}
          /\ attempted = {}
          /\ summaries = 0
          /\ \A i \in DOMAIN task : launches[i] = 0 /\ task[i].status = "none"

\* C9 witness: a readable file of several rows with an invalid mode has
\* exited.
C9_Witness ==
    /\ pc = "exit"
    /\ file_ok
    /\ mode = "other"
    /\ total_layers >= 2

\* C10: a fetch is attempted for a row only once its record is persisted, a
\* record-write failure means no fetch for the row, and a processed row with
\* Error "SUCCESS" and an unreachable image has its data file, is counted
\* failed and has an error_log entry carrying the fetch error.
C10_WriteBeforeFetch ==
    /\ \A i \in attempted :
          /\ DataFile(LayerNumber(csv_data[i])) \in files
          /\ fate[i] # "write"
    /\ \A n \in 1 .. Len(folded) :
          LET i == folded[n].row IN
          (CsvError(csv_data[i]) = "SUCCESS" /\ fate[i] = "fetch") =>
             /\ DataFile(LayerNumber(csv_data[i])) \in files
             /\ ~folded[n].success
             /\ \E e \in EntriesOf(LayerNumber(csv_data[i])) :
                    error_log[e][2][2] = FetchException

\* C10 witness: a row with Error "SUCCESS" whose fetch failed has been
\* folded, after a row whose record could not be written.
C10_Witness ==
    \E n \in 1 .. Len(folded), m \in 1 .. Len(folded) :
        /\ CsvError(csv_data[folded[n].row]) = "SUCCESS"
        /\ fate[folded[n].row] = "fetch"
        /\ fate[folded[m].row] = "write"
        /\ ImageUrl(csv_data[folded[m].row]) = "url"

\* Row i of the input file has an empty image url (or no such column) and
\* no inherent error, and the environment lets its record be written.
PlainRow(i) ==
    /\ fate[i] = "ok"
    /\ file_rows[i].image \in {<<"">>, << >>}
    /\ file_rows[i].error \in {<<"SUCCESS">>, << >>}

\* C11: a processed row whose image url is empty and whose Error is
\* "SUCCESS" or absent is counted successful without any fetch attempt, and
\* an unaborted run over the three-row scenario table ends with total 3,
\* successful 2, failed 1 and one error_log entry, naming layer 3 and
\* carrying "Nozzle Jam".
C11_EmptyImageSucceeds ==
    /\ \A n \in 1 .. Len(folded) :
          PlainRow(folded[n].row) =>
             /\ folded[n].success
             /\ folded[n].row \notin attempted
    /\ (pc = "done" /\ ~quit /\ file_rows = ScenarioTable) =>
          /\ total_layers = 3
          /\ successful_layers = 2
          /\ failed_layers = 1
          /\ Len(error_log) = 1
          /\ error_log[1][1] = 3
          /\ error_log[1][2][2] = "Nozzle Jam"

\* The consumer loop of supervised_mode_async has been entered.
WindowFilled ==
    PrefetchMode /\ pc \in {"sprompt", "await", "closing", "summary", "done"}

\* C12: once the initial fill is done, and after every consumer step,
\* current_index <= next_index_to_prefetch <= total_layers and the keys of
\* prefetched are exactly current_index .. next_index_to_prefetch - 1.
C12_WindowRange ==
    WindowFilled =>
        /\ current_index <= next_index_to_prefetch
        /\ next_index_to_prefetch <= total_layers
        /\ DOMAIN prefetched = current_index .. (next_index_to_prefetch - 1)

\* C12 witness: after a consumed row the window is full and rows
\* remain to be scheduled.
C12_Witness ==
    /\ WindowFilled
    /\ current_index >= 1
    /\ Cardinality(DOMAIN prefetched) = max_prefetch
    /\ next_index_to_prefetch < total_layers

\* A prefetch-paced supervised run over a readable table without rows.
EmptyRun == PrefetchMode /\ file_ok /\ NumRows = 0

\* C13: in prefetch-paced supervised mode over a table without rows nothing
\* is ever launched or folded, the counters stay at 0, the consumer never
\* reaches a prompt or an await, the run leaves the loaded table directly
\* for the end of the loop, and it ends with the summary written.
C13_EmptyInput ==
    /\ [](EmptyRun =>
            /\ DOMAIN prefetched = {}
            /\ next_index_to_prefetch = 0
            /\ current_index = 0
            /\ folded = << >>
            /\ successful_layers = 0
            /\ failed_layers = 0
            /\ error_log = << >>
            /\ pc \notin {"sprompt", "await", "crash", "exit"}
            /\ (pc = "done" => summaries = 1))
    /\ [][(EmptyRun /\ pc = "loaded") => pc' = "closing"]_vars

\* C13 witness: such a run has ended.
C13_Witness == EmptyRun /\ pc = "done" /\ total_layers = 0

\* C14: in prefetch-paced supervised mode the step in which the user quits
\* leaves next_index_to_prefetch, current_index and the keys of prefetched
\* unchanged and launches nothing; from then on no operation is launched
\* and no outcome is folded.
C14_QuitFrame ==
    /\ [][(PrefetchMode /\ ~quit /\ quit') =>
            /\ next_index_to_prefetch' = next_index_to_prefetch
            /\ current_index' = current_index
            /\ prefetched' = prefetched
            /\ launches' = launches
            /\ task' = task
            /\ folded' = folded]_vars
    /\ [][(PrefetchMode /\ quit) =>
            /\ launches' = launches
            /\ prefetched' = prefetched
            /\ next_index_to_prefetch' = next_index_to_prefetch
            /\ folded' = folded]_vars

\* C14 witness: the user quit while rows were still unscheduled and
\* operations in flight, one of which returned afterwards, and the run
\* ended.
C14_Witness ==
    /\ PrefetchMode
    /\ quit
    /\ pc = "done"
    /\ next_index_to_prefetch < total_layers
    /\ DOMAIN prefetched # {}
    /\ \A i \in DOMAIN task :
          i >= next_index_to_prefetch => task[i].status = "none"
    /\ \E i \in DOMAIN prefetched : task[prefetched[i]].status = "done"

\* No operation is still pending.
NonePending == \A i \in DOMAIN task : ~Pending(task[i])

\* C15: in prefetch-paced supervised mode, after the user has quit the run
\* eventually ends with its summary written and no operation pending; no
\* operation is pending once the run is at the summary; and the run is
\* never in a fault state, whatever the abandoned operations do.
C15_AbandonedSettle ==
    /\ (PrefetchMode /\ quit) ~> (pc = "done" /\ summaries = 1 /\ NonePending)
    /\ []((PrefetchMode /\ pc \in {"summary", "done"}) => NonePending)
    /\ [](PrefetchMode => pc # "crash")

\* C15 witness: the user quit, an abandoned operation failed with an
\* exception, another was cancelled, and the run ended.
C15_Witness ==
    /\ PrefetchMode
    /\ quit
    /\ pc = "done"
    /\ \E i \in DOMAIN task : i >= current_index /\ task[i].status = "raised"
    /\ \E i \in DOMAIN task : i >= current_index /\ task[i].status = "cancelled"

\* The operation of row i has been launched and has not settled.
InFlight(i) == Pending(task[i])

\* C16: two operations for distinct rows that are in flight at the same
\* time have different data files and different image paths, also when the
\* rows have equal or no layer numbers.
C16_DisjointArtifacts ==
    \A i \in DOMAIN task, j \in DOMAIN task :
        (i # j /\ InFlight(i) /\ InFlight(j)) =>
            /\ DataFile(LayerNumber(csv_data[i])) # DataFile(LayerNumber(csv_data[j]))
            /\ ImageFile(LayerNumber(csv_data[i])) # ImageFile(LayerNumber(csv_data[j]))

\* The initial fill is done and the user has not answered a prompt yet.
AfterInitialFill ==
    PrefetchMode /\ pc \in {"sprompt", "closing"} /\ current_index = 0 /\ ~quit

\* The initial fill launched exactly the rows below n, each once and under
\* its own index.
FilledUpTo(n) ==
    /\ DOMAIN prefetched = 0 .. (n - 1)
    /\ \A k \in DOMAIN prefetched : prefetched[k] = k
    /\ \A i \in DOMAIN launches : launches[i] = IF i < n THEN 1 ELSE 0

\* The smaller of two numbers.
Smaller(a, b) == IF a < b THEN a ELSE b

\* C17 as stated: the initial fill launches rows 0 .. initial_prefetch - 1
\* (all rows of a shorter table) under their indices and leaves
\* current_index = 0 and next_index_to_prefetch = initial_prefetch.
C17_InitialFillAsStated ==
    AfterInitialFill =>
        /\ FilledUpTo(Smaller(initial_prefetch, total_layers))
        /\ next_index_to_prefetch = initial_prefetch

\* C17: the initial fill launches rows 0 .. initial_prefetch - 1 (all rows
\* of a shorter table) under their indices and leaves current_index = 0 and
\* next_index_to_prefetch = min(initial_prefetch, total_layers).
C17_InitialFill ==
    AfterInitialFill =>
        /\ FilledUpTo(Smaller(initial_prefetch, total_layers))
        /\ next_index_to_prefetch = Smaller(initial_prefetch, total_layers)

\* C17 witness: the initial fill of a table shorter than initial_prefetch
\* is done.
C17_Witness ==
    /\ AfterInitialFill
    /\ pc = "sprompt"
    /\ total_layers = initial_prefetch - 1
    /\ next_index_to_prefetch = total_layers

\* A step of the consumer that consumes a row: the fold that ends the await.
ConsumingStep == PrefetchMode /\ pc = "await" /\ pc' # "await"

\* The rows scheduled by the step, in ascending order from
\* next_index_to_prefetch.
Refilled == next_index_to_prefetch .. (next_index_to_prefetch' - 1)

\* C18: a consumer step that consumes a row removes key current_index from
\* prefetched, increases current_index by 1 and launches the next rows in
\* ascending order until next_index_to_prefetch = total_layers or prefetched
\* holds max_prefetch entries; with more than max_prefetch rows the first
\* such step takes the window from initial_prefetch to max_prefetch entries.
C18_ConsumeAndRefill ==
    /\ [][ConsumingStep =>
            /\ current_index' = current_index + 1
            /\ Len(folded') = Len(folded) + 1
            /\ DOMAIN prefetched' = (DOMAIN prefetched \ {current_index}) \cup Refilled
            /\ \A k \in DOMAIN prefetched' : prefetched'[k] = k
            /\ \A i \in DOMAIN launches :
                  launches'[i] = launches[i] + (IF i \in Refilled THEN 1 ELSE 0)
            /\ \/ next_index_to_prefetch' = total_layers
               \/ Cardinality(DOMAIN prefetched') = max_prefetch]_vars
    /\ [][(ConsumingStep /\ current_index = 0 /\ total_layers > max_prefetch) =>
            /\ Cardinality(DOMAIN prefetched) = initial_prefetch
            /\ Cardinality(DOMAIN prefetched') = max_prefetch]_vars

\* C18 witness: the first row of a table of more than max_prefetch rows has
\* been consumed and the window has grown to max_prefetch entries.
C18_Witness ==
    /\ PrefetchMode
    /\ pc = "sprompt"
    /\ Len(folded) = 1
    /\ total_layers > max_prefetch
    /\ DOMAIN prefetched = 1 .. max_prefetch

\* The asynchronous processor of row i has returned an outcome.
Returned(i) == task[i].status = "done"

\* What happens to row i in the processor: its record write fails; it has
\* an image url (a truthy value) whose fetch or persistence fails, with the
\* exception raised; its Error value is not "SUCCESS".
RecordWriteFails(i) == fate[i] = "write"
ImagePresent(i) == ImageUrl(csv_data[i]) # ""
ImageFails(i) == fate[i] \in {"fetch", "imgwrite"} \/ ImageUrl(csv_data[i]) = NaN
ImageException(i) ==
    IF ImageUrl(csv_data[i]) = NaN THEN UrlException
    ELSE IF fate[i] = "fetch" THEN FetchException ELSE WriteException
InherentError(i) == CsvError(csv_data[i]) # "SUCCESS"

\* The outcome of row i by the precedence write error > fetch error >
\* inherent error > success.
ByPrecedence(i) ==
    IF RecordWriteFails(i)
    THEN [ok |-> FALSE, msg |-> <<"Error writing layer data: ", WriteException>>]
    ELSE IF ImagePresent(i) /\ ImageFails(i)
    THEN [ok |-> FALSE, msg |-> <<"Error downloading image: ", ImageException(i)>>]
    ELSE IF InherentError(i)
    THEN [ok |-> FALSE, msg |-> <<"Inherent CSV error: ", CsvError(csv_data[i])>>]
    ELSE [ok |-> TRUE, msg |-> None]

IOPerformed(i) ==
    /\ DataFile(LayerNumber(csv_data[i])) \in files
    /\ ~RecordWriteFails(i)
    /\ ImagePresent(i) =>
          /\ i \in attempted
          /\ ~ImageFails(i)
          /\ ImageFile(LayerNumber(csv_data[i])) \in files

\* The error_log entries of the layer of row i that carry its Error value.
InherentEntries(i) ==
    {e \in EntriesOf(LayerNumber(csv_data[i])) :
        error_log[e][2][2] = CsvError(csv_data[i])}

\* C21: in every mode a row is logged as failed with its inherent error only
\* once its record is persisted and its image, when it has one, fetched and
\* persisted; a row whose record write or image fetch fails is logged with
\* that I/O error, not with its inherent error.
C21_InherentAfterIO ==
    DistinctLayers =>
        \A n \in 1 .. Len(folded) :
            LET i == folded[n].row IN
            /\ (InherentError(i) /\ InherentEntries(i) # {}) => IOPerformed(i)
            /\ (RecordWriteFails(i) \/ (ImagePresent(i) /\ ImageFails(i))) =>
                  InherentEntries(i) = {}

\* Full-concurrency automatic mode.
GatherMode == driver \in {"multi", "smart"} /\ mode = "automatic"

\* The error_log entries of the rows from i on, in row order, as the inputs
\* determine them.
RECURSIVE FailuresFrom(_)
FailuresFrom(i) ==
    IF i >= total_layers
    THEN << >>
    ELSE (IF ByPrecedence(i).ok
          THEN << >>
          ELSE <<(<<LayerNumber(csv_data[i]), ByPrecedence(i).msg>>)>>)
         \o FailuresFrom(i + 1)

\* C22: in full-concurrency automatic mode every row has its operation
\* launched before any outcome is folded, the counters and error_log change
\* only in a step taken when every operation has returned, and once the
\* loop is over they are what the rows and their I/O determine, with the
\* error_log entries in row order, whatever the order of completion.
C22_GatherThenFold ==
    /\ [](GatherMode =>
            /\ (folded # << >> \/ pc = "gather") =>
                  \A i \in DOMAIN task : launches[i] = 1
            /\ pc \in {"start", "loaded", "gather", "crash"} =>
                  /\ successful_layers = 0
                  /\ failed_layers = 0
                  /\ error_log = << >>
                  /\ folded = << >>
            /\ pc \in {"summary", "done"} =>
                  /\ error_log = FailuresFrom(0)
                  /\ failed_layers = Len(FailuresFrom(0))
                  /\ successful_layers = total_layers - failed_layers
                  /\ \A n \in 1 .. Len(folded) : folded[n].row = n - 1)
    /\ [][(GatherMode /\ counters' # counters) =>
            \A i \in DOMAIN task : task[i].status = "done"]_vars

\* C22 witness: a gathered run of two rows whose fetches both failed, in
\* either order, has folded two failures.
C22_Witness ==
    /\ GatherMode
    /\ pc = "done"
    /\ total_layers = 2
    /\ \A i \in DOMAIN task : fate[i] = "fetch" /\ i \in attempted
    /\ Len(error_log) = 2
    /\ error_log[1][1] # error_log[2][1]

\* Sequential supervised mode (normal_driver, multi_driver).
SequentialSupervised == driver \in {"normal", "multi"} /\ mode = "supervised"

\* Row i has left no trace: no outcome folded, no fetch attempted, no
\* artifact written (a file of its layer can only stem from an earlier row
\* with the same layer number) and no error_log entry.
Untouched(i) ==
    LET l == LayerNumber(csv_data[i])
        same == \E j \in DOMAIN csv_data :
                    j < current_index /\ LayerNumber(csv_data[j]) = l
    IN /\ FoldCount(i) = 0
       /\ i \notin attempted
       /\ ~same =>
            /\ DataFile(l) \notin files
            /\ ImageFile(l) \notin files
            /\ EntriesOf(l) = {}

\* C23: in sequential supervised mode, once the user has quit at the
\* confirmation prompt of row k or chosen 'end' at its inherent-error
\* prompt, no row from k on has left a trace,
\* successful_layers + failed_layers = k, also in the summary, and the
\* counters, the error_log and the layer artifacts never change again.
C23_SequentialAbort ==
    /\ []((SequentialSupervised /\ quit) =>
            /\ current_index < total_layers
            /\ \A i \in DOMAIN csv_data : i >= current_index => Untouched(i)
            /\ successful_layers + failed_layers = current_index
            /\ Len(folded) = current_index
            /\ pc = "done" =>
                  summary[1].successful + summary[1].failed = current_index)
    /\ [][(SequentialSupervised /\ (quit \/ quit')) =>
            /\ counters' = counters
            /\ folded' = folded
            /\ attempted' = attempted
            /\ current_index' = current_index
            /\ files' \ SummaryFiles = files \ SummaryFiles]_vars

\* C23 witness: after a processed row the user chose 'end' at the
\* inherent-error prompt of the next row, which has an image, and the
\* summary is written.
C23_Witness ==
    /\ SequentialSupervised
    /\ quit
    /\ pc = "done"
    /\ current_index = 1
    /\ InherentError(1)
    /\ ImageUrl(csv_data[1]) = "url"
    /\ files # SummaryFiles

\* The consumer is at the prompt of a row: the rendezvous with the user.
Rendezvous == PrefetchMode /\ pc = "sprompt"

\* C24: in prefetch-paced supervised mode, at every rendezvous the row at
\* current_index exists and prefetched holds the key current_index, bound to
\* the launched operation of that row; a confirmation always leads to the
\* await of that operation and current_index never advances without an
\* outcome being folded, so the branch for a missing key is never taken.
C24_KeyAtRendezvous ==
    /\ [](Rendezvous =>
            /\ current_index < total_layers
            /\ current_index \in DOMAIN prefetched
            /\ prefetched[current_index] = current_index
            /\ launches[current_index] = 1
            /\ task[current_index].status # "none")
    /\ [][(Rendezvous /\ pc' # pc /\ ~quit') => pc' = "await"]_vars
    /\ [][(PrefetchMode /\ current_index' # current_index) =>
            /\ pc = "await"
            /\ Len(folded') = Len(folded) + 1
            /\ folded'[Len(folded')].key = current_index]_vars

\* C24 witness: the rendezvous for the last row of a table of more than
\* max_prefetch rows, every earlier row confirmed.
C24_Witness ==
    /\ Rendezvous
    /\ total_layers > max_prefetch
    /\ current_index = total_layers - 1
    /\ Len(folded) = current_index
    /\ DOMAIN prefetched = {current_index}

\* error_log was only appended to by the step.
LogExtended ==
    /\ Len(error_log') >= Len(error_log)
    /\ \A n \in 1 .. Len(error_log) : error_log'[n] = error_log[n]

\* C25: in every mode of every driver error_log has as many entries as
\* failed_layers counts, in every state; a step adds as many entries to
\* error_log as it adds to failed_layers, never removes or rewrites one, and
\* a step that leaves failed_layers alone leaves error_log alone.
C25_LogMatchesFailed ==
    /\ [](Len(error_log) = failed_layers)
    /\ [][/\ LogExtended
          /\ failed_layers' >= failed_layers
          /\ successful_layers' >= successful_layers
          /\ Len(error_log') - Len(error_log) = failed_layers' - failed_layers
          /\ failed_layers' = failed_layers => error_log' = error_log
          /\ (failed_layers' - failed_layers) + (successful_layers' - successful_layers)
                = Len(folded') - Len(folded)]_vars

\* C25 witness: a run has counted two failures and a success.
C25_Witness ==
    /\ failed_layers = 2
    /\ successful_layers >= 1
    /\ Len(error_log) = 2
    /\ pc = "done"

\* The step that ends the await of an operation that raised.
RaisedConsumed ==
    /\ PrefetchMode
    /\ pc = "await"
    /\ pc' # "await"
    /\ task[prefetched[current_index]].status = "raised"

\* C26: in prefetch-paced supervised mode, when the operation awaited for
\* the row at current_index raised, the consumer counts one failed layer
\* and appends one error_log entry with the layer number of that row and
\* the exception, removes the key, advances current_index and goes on to
\* the prompt of the next row (or to the end of the loop after the last
\* row); the run never crashes.
C26_RaisedIsFolded ==
    /\ [][RaisedConsumed =>
            /\ failed_layers' = failed_layers + 1
            /\ successful_layers' = successful_layers
            /\ error_log' =
                  Append(error_log,
                         <<LayerNumber(csv_data[current_index]),
                           <<"Error: ", task[current_index].result[1]>>>>)
            /\ Len(folded') = Len(folded) + 1
            /\ ~folded'[Len(folded')].success
            /\ current_index \notin DOMAIN prefetched'
            /\ current_index' = current_index + 1
            /\ pc' = (IF current_index + 1 < total_layers
                      THEN "sprompt" ELSE "closing")]_vars
    /\ [](PrefetchMode =>
            /\ pc # "crash"
            /\ exit_code \in {StillRunning, Exited(0), Exited(1)}
            /\ exit_code = Exited(1) => pc = "exit")

\* C26 witness: the operation of a row with a layer number raised and was
\* folded as a failure, and the row after it was folded as a success.
C26_Witness ==
    /\ PrefetchMode
    /\ Len(folded) >= 2
    /\ task[0].status = "raised"
    /\ LayerNumber(csv_data[0]) # unknown
    /\ ~folded[1].success
    /\ folded[2].success
    /\ failed_layers = 1
    /\ error_log[1][1] = LayerNumber(csv_data[0])

\* A prefetch-paced supervised run over a readable file.
PrefetchRun == PrefetchMode /\ file_ok

\* Every row has been folded and the summary is written.
AllFolded ==
    /\ pc = "done"
    /\ current_index = total_layers
    /\ Len(folded) = total_layers
    /\ successful_layers + failed_layers = total_layers
    /\ summaries = 1

\* C27: a prefetch-paced supervised run in which every launched operation
\* settles and the user answers every prompt terminates with its summary
\* written; unless the user quits, every row is folded before that; the
\* operation the consumer awaits has always been launched, and every await
\* comes to an end.
C27_Terminates ==
    /\ PrefetchRun ~> (pc = "done" /\ summaries = 1 /\ (quit \/ AllFolded))
    /\ [](PrefetchRun /\ pc = "await" =>
            /\ current_index \in DOMAIN prefetched
            /\ launches[prefetched[current_index]] = 1
            /\ task[prefetched[current_index]].status
                  \in {"created", "fetching", "done", "raised"})
    /\ (PrefetchRun /\ pc = "await") ~> (pc # "await")

\* C27 witness: a run over more rows than the window holds, with a failed
\* fetch and an operation that raised among them, has folded every row
\* without the user quitting and has written its summary.
C27_Witness ==
    /\ PrefetchRun
    /\ ~quit
    /\ AllFolded
    /\ total_layers > max_prefetch
    /\ \E i \in DOMAIN task : fate[i] = "fetch" /\ i \in attempted
    /\ \E i \in DOMAIN task : task[i].status = "raised"

====
